---- MODULE Spec2Model ----
(***************************************************************************)
(* Model of the helpihub e-mail processor (src/email_processor.py).        *)
(*                                                                         *)
(* Several worker processes, each with its own PostgreSQL connection, run  *)
(* EmailProcessor._process_single_email against one shared store.  The     *)
(* store is modelled as sets of rows; a row carries the connection that    *)
(* wrote it and has not committed yet (tx = 0: committed).  Statements run *)
(* at READ COMMITTED: a statement sees the committed rows and the rows of  *)
(* its own transaction.  Header values are sequences of one-character      *)
(* strings, so that stripping, splitting and formatting are computed.      *)
(*                                                                         *)
(* Specifications:                                                         *)
(*   Spec         the workers and the callers of the public ticket methods *)
(*                (every action on the store), on one mailbox;             *)
(*   SpecProcess  the workers alone, racing on each of the mailboxes;      *)
(*   SpecLoop     main() and process_emails of one process, cycle after    *)
(*                cycle (SpecLoopFair: with fairness);                     *)
(*   SpecConf     the confirmation builder on given rows.                  *)
(***************************************************************************)
EXTENDS Integers, Sequences, FiniteSets, TLC

(* ---------------------------------------------------------------------- *)
(* Bounds of the model.                                                    *)
(* ---------------------------------------------------------------------- *)

\* Number of _process_single_email calls started in one behaviour.
MaxCalls == 3

\* Worker processes (one connection each) running against the same store.
Workers == {1, 2}

(* ---------------------------------------------------------------------- *)
(* Strings as sequences of characters.                                     *)
(* ---------------------------------------------------------------------- *)

Upper == {"A", "B", "C", "D", "E", "F", "G", "H", "I", "J", "K", "L", "M",
          "N", "O", "P", "Q", "R", "S", "T", "U", "V", "W", "X", "Y", "Z"}

\* A character that a TLA+ string cannot hold (a control character without
\* an escape, a character outside ASCII) is written by its code point, as
\* "U+0664" for ARABIC-INDIC DIGIT FOUR.

\* The decimal digits outside ASCII (Unicode category Nd): \d of a str pattern
\* accepts them as well.
UnicodeDigit ==
    {"U+0660", "U+0661", "U+0662", "U+0663", "U+0664", "U+0665", "U+0666", "U+0667",
     "U+0668", "U+0669", "U+06F0", "U+06F1", "U+06F2", "U+06F3", "U+06F4", "U+06F5",
     "U+06F6", "U+06F7", "U+06F8", "U+06F9", "U+07C0", "U+07C1", "U+07C2", "U+07C3",
     "U+07C4", "U+07C5", "U+07C6", "U+07C7", "U+07C8", "U+07C9", "U+0966", "U+0967",
     "U+0968", "U+0969", "U+096A", "U+096B", "U+096C", "U+096D", "U+096E", "U+096F",
     "U+09E6", "U+09E7", "U+09E8", "U+09E9", "U+09EA", "U+09EB", "U+09EC", "U+09ED",
     "U+09EE", "U+09EF", "U+0A66", "U+0A67", "U+0A68", "U+0A69", "U+0A6A", "U+0A6B",
     "U+0A6C", "U+0A6D", "U+0A6E", "U+0A6F", "U+0AE6", "U+0AE7", "U+0AE8", "U+0AE9",
     "U+0AEA", "U+0AEB", "U+0AEC", "U+0AED", "U+0AEE", "U+0AEF", "U+0B66", "U+0B67",
     "U+0B68", "U+0B69", "U+0B6A", "U+0B6B", "U+0B6C", "U+0B6D", "U+0B6E", "U+0B6F",
     "U+0BE6", "U+0BE7", "U+0BE8", "U+0BE9", "U+0BEA", "U+0BEB", "U+0BEC", "U+0BED",
     "U+0BEE", "U+0BEF", "U+0C66", "U+0C67", "U+0C68", "U+0C69", "U+0C6A", "U+0C6B",
     "U+0C6C", "U+0C6D", "U+0C6E", "U+0C6F", "U+0CE6", "U+0CE7", "U+0CE8", "U+0CE9",
     "U+0CEA", "U+0CEB", "U+0CEC", "U+0CED", "U+0CEE", "U+0CEF", "U+0D66", "U+0D67",
     "U+0D68", "U+0D69", "U+0D6A", "U+0D6B", "U+0D6C", "U+0D6D", "U+0D6E", "U+0D6F",
     "U+0DE6", "U+0DE7", "U+0DE8", "U+0DE9", "U+0DEA", "U+0DEB", "U+0DEC", "U+0DED",
     "U+0DEE", "U+0DEF", "U+0E50", "U+0E51", "U+0E52", "U+0E53", "U+0E54", "U+0E55",
     "U+0E56", "U+0E57", "U+0E58", "U+0E59", "U+0ED0", "U+0ED1", "U+0ED2", "U+0ED3",
     "U+0ED4", "U+0ED5", "U+0ED6", "U+0ED7", "U+0ED8", "U+0ED9", "U+0F20", "U+0F21",
     "U+0F22", "U+0F23", "U+0F24", "U+0F25", "U+0F26", "U+0F27", "U+0F28", "U+0F29",
     "U+1040", "U+1041", "U+1042", "U+1043", "U+1044", "U+1045", "U+1046", "U+1047",
     "U+1048", "U+1049", "U+1090", "U+1091", "U+1092", "U+1093", "U+1094", "U+1095",
     "U+1096", "U+1097", "U+1098", "U+1099", "U+17E0", "U+17E1", "U+17E2", "U+17E3",
     "U+17E4", "U+17E5", "U+17E6", "U+17E7", "U+17E8", "U+17E9", "U+1810", "U+1811",
     "U+1812", "U+1813", "U+1814", "U+1815", "U+1816", "U+1817", "U+1818", "U+1819",
     "U+1946", "U+1947", "U+1948", "U+1949", "U+194A", "U+194B", "U+194C", "U+194D",
     "U+194E", "U+194F", "U+19D0", "U+19D1", "U+19D2", "U+19D3", "U+19D4", "U+19D5",
     "U+19D6", "U+19D7", "U+19D8", "U+19D9", "U+1A80", "U+1A81", "U+1A82", "U+1A83",
     "U+1A84", "U+1A85", "U+1A86", "U+1A87", "U+1A88", "U+1A89", "U+1A90", "U+1A91",
     "U+1A92", "U+1A93", "U+1A94", "U+1A95", "U+1A96", "U+1A97", "U+1A98", "U+1A99",
     "U+1B50", "U+1B51", "U+1B52", "U+1B53", "U+1B54", "U+1B55", "U+1B56", "U+1B57",
     "U+1B58", "U+1B59", "U+1BB0", "U+1BB1", "U+1BB2", "U+1BB3", "U+1BB4", "U+1BB5",
     "U+1BB6", "U+1BB7", "U+1BB8", "U+1BB9", "U+1C40", "U+1C41", "U+1C42", "U+1C43",
     "U+1C44", "U+1C45", "U+1C46", "U+1C47", "U+1C48", "U+1C49", "U+1C50", "U+1C51",
     "U+1C52", "U+1C53", "U+1C54", "U+1C55", "U+1C56", "U+1C57", "U+1C58", "U+1C59",
     "U+A620", "U+A621", "U+A622", "U+A623", "U+A624", "U+A625", "U+A626", "U+A627",
     "U+A628", "U+A629", "U+A8D0", "U+A8D1", "U+A8D2", "U+A8D3", "U+A8D4", "U+A8D5",
     "U+A8D6", "U+A8D7", "U+A8D8", "U+A8D9", "U+A900", "U+A901", "U+A902", "U+A903",
     "U+A904", "U+A905", "U+A906", "U+A907", "U+A908", "U+A909", "U+A9D0", "U+A9D1",
     "U+A9D2", "U+A9D3", "U+A9D4", "U+A9D5", "U+A9D6", "U+A9D7", "U+A9D8", "U+A9D9",
     "U+A9F0", "U+A9F1", "U+A9F2", "U+A9F3", "U+A9F4", "U+A9F5", "U+A9F6", "U+A9F7",
     "U+A9F8", "U+A9F9", "U+AA50", "U+AA51", "U+AA52", "U+AA53", "U+AA54", "U+AA55",
     "U+AA56", "U+AA57", "U+AA58", "U+AA59", "U+ABF0", "U+ABF1", "U+ABF2", "U+ABF3",
     "U+ABF4", "U+ABF5", "U+ABF6", "U+ABF7", "U+ABF8", "U+ABF9", "U+FF10", "U+FF11",
     "U+FF12", "U+FF13", "U+FF14", "U+FF15", "U+FF16", "U+FF17", "U+FF18", "U+FF19",
     "U+104A0", "U+104A1", "U+104A2", "U+104A3", "U+104A4", "U+104A5", "U+104A6", "U+104A7",
     "U+104A8", "U+104A9", "U+10D30", "U+10D31", "U+10D32", "U+10D33", "U+10D34", "U+10D35",
     "U+10D36", "U+10D37", "U+10D38", "U+10D39", "U+11066", "U+11067", "U+11068", "U+11069",
     "U+1106A", "U+1106B", "U+1106C", "U+1106D", "U+1106E", "U+1106F", "U+110F0", "U+110F1",
     "U+110F2", "U+110F3", "U+110F4", "U+110F5", "U+110F6", "U+110F7", "U+110F8", "U+110F9",
     "U+11136", "U+11137", "U+11138", "U+11139", "U+1113A", "U+1113B", "U+1113C", "U+1113D",
     "U+1113E", "U+1113F", "U+111D0", "U+111D1", "U+111D2", "U+111D3", "U+111D4", "U+111D5",
     "U+111D6", "U+111D7", "U+111D8", "U+111D9", "U+112F0", "U+112F1", "U+112F2", "U+112F3",
     "U+112F4", "U+112F5", "U+112F6", "U+112F7", "U+112F8", "U+112F9", "U+11450", "U+11451",
     "U+11452", "U+11453", "U+11454", "U+11455", "U+11456", "U+11457", "U+11458", "U+11459",
     "U+114D0", "U+114D1", "U+114D2", "U+114D3", "U+114D4", "U+114D5", "U+114D6", "U+114D7",
     "U+114D8", "U+114D9", "U+11650", "U+11651", "U+11652", "U+11653", "U+11654", "U+11655",
     "U+11656", "U+11657", "U+11658", "U+11659", "U+116C0", "U+116C1", "U+116C2", "U+116C3",
     "U+116C4", "U+116C5", "U+116C6", "U+116C7", "U+116C8", "U+116C9", "U+11730", "U+11731",
     "U+11732", "U+11733", "U+11734", "U+11735", "U+11736", "U+11737", "U+11738", "U+11739",
     "U+118E0", "U+118E1", "U+118E2", "U+118E3", "U+118E4", "U+118E5", "U+118E6", "U+118E7",
     "U+118E8", "U+118E9", "U+11950", "U+11951", "U+11952", "U+11953", "U+11954", "U+11955",
     "U+11956", "U+11957", "U+11958", "U+11959", "U+11C50", "U+11C51", "U+11C52", "U+11C53",
     "U+11C54", "U+11C55", "U+11C56", "U+11C57", "U+11C58", "U+11C59", "U+11D50", "U+11D51",
     "U+11D52", "U+11D53", "U+11D54", "U+11D55", "U+11D56", "U+11D57", "U+11D58", "U+11D59",
     "U+11DA0", "U+11DA1", "U+11DA2", "U+11DA3", "U+11DA4", "U+11DA5", "U+11DA6", "U+11DA7",
     "U+11DA8", "U+11DA9", "U+16A60", "U+16A61", "U+16A62", "U+16A63", "U+16A64", "U+16A65",
     "U+16A66", "U+16A67", "U+16A68", "U+16A69", "U+16AC0", "U+16AC1", "U+16AC2", "U+16AC3",
     "U+16AC4", "U+16AC5", "U+16AC6", "U+16AC7", "U+16AC8", "U+16AC9", "U+16B50", "U+16B51",
     "U+16B52", "U+16B53", "U+16B54", "U+16B55", "U+16B56", "U+16B57", "U+16B58", "U+16B59",
     "U+1D7CE", "U+1D7CF", "U+1D7D0", "U+1D7D1", "U+1D7D2", "U+1D7D3", "U+1D7D4", "U+1D7D5",
     "U+1D7D6", "U+1D7D7", "U+1D7D8", "U+1D7D9", "U+1D7DA", "U+1D7DB", "U+1D7DC", "U+1D7DD",
     "U+1D7DE", "U+1D7DF", "U+1D7E0", "U+1D7E1", "U+1D7E2", "U+1D7E3", "U+1D7E4", "U+1D7E5",
     "U+1D7E6", "U+1D7E7", "U+1D7E8", "U+1D7E9", "U+1D7EA", "U+1D7EB", "U+1D7EC", "U+1D7ED",
     "U+1D7EE", "U+1D7EF", "U+1D7F0", "U+1D7F1", "U+1D7F2", "U+1D7F3", "U+1D7F4", "U+1D7F5",
     "U+1D7F6", "U+1D7F7", "U+1D7F8", "U+1D7F9", "U+1D7FA", "U+1D7FB", "U+1D7FC", "U+1D7FD",
     "U+1D7FE", "U+1D7FF", "U+1E140", "U+1E141", "U+1E142", "U+1E143", "U+1E144", "U+1E145",
     "U+1E146", "U+1E147", "U+1E148", "U+1E149", "U+1E2F0", "U+1E2F1", "U+1E2F2", "U+1E2F3",
     "U+1E2F4", "U+1E2F5", "U+1E2F6", "U+1E2F7", "U+1E2F8", "U+1E2F9", "U+1E950", "U+1E951",
     "U+1E952", "U+1E953", "U+1E954", "U+1E955", "U+1E956", "U+1E957", "U+1E958", "U+1E959",
     "U+1FBF0", "U+1FBF1", "U+1FBF2", "U+1FBF3", "U+1FBF4", "U+1FBF5", "U+1FBF6", "U+1FBF7",
     "U+1FBF8", "U+1FBF9"}

\* \d of the str pattern of line 297.
Digit == {"0", "1", "2", "3", "4", "5", "6", "7", "8", "9"} \cup UnicodeDigit

\* The characters str.split() takes as separators (str.isspace).
Whitespace ==
    {"\t", "\n", "U+000B", "\f", "\r", "U+001C", "U+001D", "U+001E",
     "U+001F", " ", "U+0085", "U+00A0", "U+1680", "U+2000", "U+2001", "U+2002",
     "U+2003", "U+2004", "U+2005", "U+2006", "U+2007", "U+2008", "U+2009", "U+200A",
     "U+2028", "U+2029", "U+202F", "U+205F", "U+3000"}

Angle == {"<", ">"}

\* Python's value None (also SQL NULL); no header value or id equals it.
None == <<"None">>

\* str.strip(chars), leading half: drop leading characters that are in cs.
RECURSIVE lstrip(_, _)
lstrip(s, cs) ==
    IF s # <<>> /\ Head(s) \in cs THEN lstrip(Tail(s), cs) ELSE s

\* str.strip(chars), trailing half.
RECURSIVE rstrip(_, _)
rstrip(s, cs) ==
    IF s # <<>> /\ s[Len(s)] \in cs
    THEN rstrip(SubSeq(s, 1, Len(s) - 1), cs)
    ELSE s

\* value.strip('<>') of email_processor.py:201,222,225.
strip(s) == rstrip(lstrip(s, Angle), Angle)

\* str.split() without arguments: the maximal runs of characters that are not
\* whitespace.
RECURSIVE split_from(_, _, _)
split_from(s, i, cur) ==
    IF i > Len(s)
    THEN IF cur = <<>> THEN <<>> ELSE <<cur>>
    ELSE IF s[i] \in Whitespace
         THEN IF cur = <<>>
              THEN split_from(s, i + 1, <<>>)
              ELSE <<cur>> \o split_from(s, i + 1, <<>>)
         ELSE split_from(s, i + 1, Append(cur, s[i]))

split(s) == split_from(s, 1, <<>>)

\* ' '.join(xs)
RECURSIVE join(_)
join(xs) ==
    IF xs = <<>> THEN <<>>
    ELSE IF Len(xs) = 1 THEN xs[1]
    ELSE xs[1] \o <<" ">> \o join(Tail(xs))

\* [ref.strip('<>') for ref in references]
strip_all(xs) == [i \in 1..Len(xs) |-> strip(xs[i])]

\* [x for x in xs if x]  (drops the empty strings)
RECURSIVE NonEmpty(_)
NonEmpty(xs) ==
    IF xs = <<>> THEN <<>>
    ELSE IF Head(xs) = <<>> THEN NonEmpty(Tail(xs))
    ELSE <<Head(xs)>> \o NonEmpty(Tail(xs))

Range(xs) == {xs[i] : i \in 1..Len(xs)}

\* First index >= i of s whose character is not in cs (Len(s)+1 if none).
RECURSIVE run_end(_, _, _)
run_end(s, i, cs) ==
    IF i <= Len(s) /\ s[i] \in cs THEN run_end(s, i + 1, cs) ELSE i

\* re.match of '#([A-Z]+-\d+)' at position i: the group, or None.
match_at(s, i) ==
    IF i > Len(s) \/ s[i] # "#" THEN None
    ELSE LET j == run_end(s, i + 1, Upper)
             k == run_end(s, j + 1, Digit)
         IN  IF j > i + 1 /\ j <= Len(s) /\ s[j] = "-" /\ k > j + 1
             THEN SubSeq(s, i + 1, k - 1)
             ELSE None

\* re.search: the leftmost position that matches.
RECURSIVE search_from(_, _)
search_from(s, i) ==
    IF i > Len(s) THEN None
    ELSE IF match_at(s, i) # None THEN match_at(s, i)
    ELSE search_from(s, i + 1)

\* EmailProcessor._extract_ticket_reference
_extract_ticket_reference(subject) == search_from(subject, 1)

\* Decimal digits of n >= 0.
RECURSIVE digits(_)
digits(n) ==
    LET d == <<"0", "1", "2", "3", "4", "5", "6", "7", "8", "9">>[(n % 10) + 1]
    IN  IF n < 10 THEN <<d>> ELSE Append(digits(n \div 10), d)

\* format(n, '06d'): zero-padded to a width of at least six.
RECURSIVE zfill(_, _)
zfill(s, width) == IF Len(s) >= width THEN s ELSE zfill(<<"0">> \o s, width)

\* f"SUP-{ticket_number:06d}"
format_ticket_number(n) == <<"S", "U", "P", "-">> \o zfill(digits(n), 6)

(* ---------------------------------------------------------------------- *)
(* Inbound messages: the raw headers of what the mailbox delivers.         *)
(*   mid, irt, refs: the Message-ID, In-Reply-To and References header     *)
(*   values (<<>>: header absent); subject; bad: the payload cannot be     *)
(*   decoded.                                                              *)
(* ---------------------------------------------------------------------- *)

Msg(mid, irt, refs, subject, bad) ==
    [mid |-> mid, irt |-> irt, refs |-> refs, subject |-> subject, bad |-> bad]

MsgA == Msg(<<"<", "a", ">">>, <<>>, <<>>, <<"h", "i">>, FALSE)
MsgB == Msg(<<"<", "b", ">">>, <<>>, <<>>,
            <<"R", "e", " ", "#", "S", "U", "P", "-", "0", "0", "0", "0", "0", "1">>,
            FALSE)
MsgR == Msg(<<"<", "r", ">">>, <<"<", "a", ">">>, <<"<", "b", ">", "\t", "<", "a", ">">>,
            <<"#", "S", "U", "P", "-", "0", "0", "0", "0", "0", "2">>, FALSE)
MsgQ == Msg(<<"<", "q", ">">>, <<>>, <<"<", "a", ">", "\r", "\n", " ", "<", "b", ">">>,
            <<"h", "i">>, FALSE)
MsgU == Msg(<<"<", "u", ">">>, <<"<", "z", ">">>, <<>>, <<"h", "i">>, FALSE)
MsgN == Msg(<<>>, <<>>, <<>>, <<"h", "i">>, FALSE)
MsgX == Msg(<<"<", "x", ">">>, <<>>, <<>>, <<"h", "i">>, TRUE)
MsgM == Msg(<<>>, <<>>, <<>>, <<"y", "o">>, FALSE)

\* The mailboxes considered: the messages mail.fetch may hand to
\* _process_single_email, each any number of times and in any order.
\*   A, B, R: a reply whose In-Reply-To and References name items of two tickets
\*            (the ids of References separated by a tab);
\*   A, B, Q: a reply with References only, naming items of two tickets (the
\*            header folded between the ids, as message_from_bytes keeps it);
\*   A, U, X: a reply to an unknown message, and an undecodable message;
\*   A, N:    a message without Message-ID.
Mailboxes == {{MsgA, MsgB, MsgR}, {MsgA, MsgB, MsgQ}, {MsgA, MsgU, MsgX},
              {MsgA, MsgN}}

(* ---------------------------------------------------------------------- *)
(* State.                                                                  *)
(* ---------------------------------------------------------------------- *)

VARIABLES
    mailbox,       \* the messages the mail server holds
    template_ok,   \* templates/email/ticket-confirmation.html can be read
    items,         \* table items: rows, each with tx (0 committed, w uncommitted)
    tickets,       \* table tickets
    queues,        \* table queues
    item_threads,  \* table item_threads
    seq,           \* last value handed out by ticket_number_seq
    uuid,          \* number of uuid4() values drawn so far
    clock,         \* number of datetime.now() values drawn so far
    intx,          \* intx[w]: connection w has an open transaction
    status,        \* status[w]: what psycopg2 takes connection w to be in
    locks,         \* locks[w]: ids of the item rows connection w has locked
    wk,            \* wk[w]: position and locals of worker w's current call
    calls,         \* number of _process_single_email calls started
    assigned,      \* history: the sequence values in the order nextval gave them
    sent,          \* history: the confirmations _send_email has delivered
    hist,          \* history: the finished _process_single_email calls
    seen,          \* the messages of the mailbox that carry the \Seen flag
    supporters,    \* table supporters: the supporter ids
    ticket_assignments, \* table ticket_assignments
    lp,            \* position and locals of main() and process_emails
    made,          \* a confirmation built from a given originating row
    api_calls      \* number of calls of the public ticket methods

vars == <<mailbox, template_ok, items, tickets, queues, item_threads, seq, uuid, clock, intx, status, locks,
          wk, calls, assigned, sent, hist, seen, supporters, ticket_assignments, lp, made,
          api_calls>>

store == <<items, tickets, queues, item_threads>>

\* What a step of _process_single_email leaves alone: the mailbox and its
\* flags, the template, the tables it never writes, the loop around it and
\* the callers of the public methods.
env == <<mailbox, template_ok, seen, supporters, ticket_assignments, lp, made, api_calls>>

\* Locals of a worker that is between two calls.
Idle ==
    [pc |-> "idle", call |-> 0, msg |-> {}, message_id |-> None,
     in_reply_to |-> None, references |-> <<>>, ticket_id |-> 0,
     ticket_number |-> None, n |-> 0, queue_id |-> None, item_id |-> 0,
     original_email |-> {}, conf |-> {}, conf_item |-> 0,
     cand |-> {}, tagged |-> {}, dup |-> {}, send |-> "no", api |-> {}]

\* queue_id = '11111111-1111-1111-1111-111111111111'
DefaultQueueId == "11111111"

\* main() before its first cycle: no processor, nothing loaded or fetched.
\*   pc: position in main()/process_emails; config: the sections of
\*   self.config; conn: self.conn is open; attempt: the IMAP attempt;
\*   batch, todo: the result of the UNSEEN search and what is left of it;
\*   attempted: the messages of the batch whose fetch was tried; cur, mark:
\*   the fetched message and the number of calls at its fetch; err: the
\*   exception that left the cycle; waited: seconds slept since the cycle
\*   ended; failed: the messages whose fetch or processing raised; at: where
\*   _process_single_email was when the interrupt came; raised_in: the step
\*   of the cycle that raised err.
NoLoop ==
    [pc |-> "off", config_file |-> "absent", env_set |-> FALSE, processor |-> FALSE,
     config |-> {}, conn |-> FALSE, attempt |-> 0, batch |-> {}, todo |-> <<>>,
     attempted |-> {}, cur |-> {}, mark |-> 0, err |-> "none", waited |-> 0,
     failed |-> {}, at |-> "none", raised_in |-> "none"]

\* The workers before their first call, on an empty store, with one of the
\* mailboxes.
ProcessInit ==
    /\ mailbox \in Mailboxes
    /\ template_ok \in BOOLEAN
    /\ items = {}
    /\ tickets = {}
    /\ queues = {}
    /\ item_threads = {}
    /\ seq = 0
    /\ uuid = 0
    /\ clock = 0
    /\ intx = [w \in Workers |-> FALSE]
    /\ status = [w \in Workers |-> "READY"]
    /\ locks = [w \in Workers |-> {}]
    /\ wk = [w \in Workers |-> Idle]
    /\ calls = 0
    /\ assigned = <<>>
    /\ sent = {}
    /\ hist = {}
    /\ seen = {}
    /\ supporters = {}
    /\ ticket_assignments = {}
    /\ lp = NoLoop
    /\ made = {}
    /\ api_calls = 0

(* ---------------------------------------------------------------------- *)
(* The store as a connection sees it.                                      *)
(* ---------------------------------------------------------------------- *)

\* READ COMMITTED: committed rows and the rows of the own transaction.
Visible(w, rows) == {r \in rows : r.tx \in {0, w}}

Committed(rows) == {r \in rows : r.tx = 0}

\* Item ids on which another connection holds a row lock.
LockedByOther(w) == UNION {locks[v] : v \in Workers \ {w}}

\* COMMIT on connection w.
CommitRows(w, rows) ==
    {IF r.tx = w THEN [r EXCEPT !.tx = 0] ELSE r : r \in rows}

\* ROLLBACK on connection w.
RollbackRows(w, rows) == {r \in rows : r.tx # w}

\* The unique index the schema puts on items.message_id for type = 'email'.
ItemsMessageIdUnique == TRUE

(* ---------------------------------------------------------------------- *)
(* EmailProcessor._process_single_email, one action per statement that     *)
(* reaches the store or the mail server.                                   *)
(* ---------------------------------------------------------------------- *)

\* The record of a finished call; lost: an 'email' item with the call's
\* message-id is committed and was stored by another call.
Finished(l, w, result, its) ==
    [call |-> l.call, w |-> w, msg |-> l.msg, message_id |-> l.message_id,
     result |-> result, ticket_id |-> l.ticket_id, n |-> l.n,
     item_id |-> l.item_id, conf_item |-> l.conf_item, send |-> l.send,
     cand |-> l.cand, tagged |-> l.tagged, dup |-> l.dup,
     lost |-> \E i \in Committed(its) :
                 /\ i.type = "email"
                 /\ i.message_id = l.message_id
                 /\ i.call # l.call]

\* Worker v has entered _process_single_email at least once.
Started(v) == wk[v].call # 0 \/ \E h \in hist : h.w = v

\* DuplicateRows with the message_id condition lost: any 'email' row counts.
DuplicateRows_AnyEmail(w, message_id) ==
    {i \in Visible(w, items) :
        /\ i.type = "email"
        /\ i.id \notin LockedByOther(w)}

\* SELECT id FROM items WHERE message_id = %s AND type = 'email'
\* FOR UPDATE SKIP LOCKED: the rows found; rows locked by another connection
\* are left out.
DuplicateRows(w, message_id) ==
    {i \in Visible(w, items) :
        /\ i.type = "email"
        /\ i.message_id = message_id
        /\ i.id \notin LockedByOther(w)}

\* The tickets a subject tag names (never consulted by the code; recorded for
\* the properties).
TaggedTickets(w, subject) ==
    {t.id : t \in {t \in Visible(w, tickets) :
                      t.ticket_number = _extract_ticket_reference(subject)}}

\* Lines 201-225: mail.fetch hands message m to worker w.  BEGIN opens a
\* transaction unless one is open (psycopg2 begins one before the first
\* statement of a connection whose status is READY, and takes the connection
\* to be in a transaction from then on), and the duplicate check runs.  A row found:
\* the call returns, the transaction stays open and the rows stay locked.
\* None found: the threading headers are read.  (The workers are
\* interchangeable: a worker starts its first call after the workers before it.)
CheckDuplicate(w, m) ==
    LET message_id == strip(m.mid)
        l == [Idle EXCEPT !.call = calls + 1, !.msg = {m}, !.message_id = message_id]
        found == DuplicateRows(w, message_id)
        references == strip_all(split(m.refs))
    IN
    /\ wk[w].pc = "idle"
    /\ UNCHANGED env
    /\ calls < MaxCalls
    /\ \A v \in Workers : v < w => Started(v)
    /\ calls' = calls + 1
    /\ IF found # {}
       THEN /\ locks' = [locks EXCEPT ![w] = @ \cup {i.id : i \in found}]
            /\ hist' = hist \cup
                 {Finished([l EXCEPT !.dup = {i.id : i \in found}], w, "skipped", items)}
            /\ wk' = [wk EXCEPT ![w] = Idle]
       ELSE /\ wk' = [wk EXCEPT ![w] =
                        [l EXCEPT !.in_reply_to = strip(m.irt),
                                  !.references = references,
                                  !.tagged = TaggedTickets(w, m.subject),
                                  !.pc = IF strip(m.irt) # <<>> \/ references # <<>>
                                         THEN "resolve" ELSE "nextval"]]
            /\ UNCHANGED <<locks, hist>>
    /\ intx' = [intx EXCEPT ![w] = TRUE]
    /\ status' = [status EXCEPT ![w] = "BEGIN"]
    /\ UNCHANGED <<store, seq, uuid, clock, assigned, sent>>

\* message_refs of lines 231-232.
MessageRefs(in_reply_to, references) == NonEmpty(<<in_reply_to>> \o references)

\* SELECT ticket_id FROM items WHERE message_id = ANY(%s) AND type = 'email':
\* the rows that match.
ThreadRows(w, message_refs) ==
    {i \in Visible(w, items) :
        i.type = "email" /\ i.message_id \in Range(message_refs)}

\* Lines 229-244: LIMIT 1 without ORDER BY returns any one matching row.
ResolveThread(w) ==
    LET l == wk[w]
        rows == ThreadRows(w, MessageRefs(l.in_reply_to, l.references))
    IN
    /\ l.pc = "resolve"
    /\ UNCHANGED env
    /\ IF rows = {}
       THEN wk' = [wk EXCEPT ![w].pc = "nextval"]
       ELSE \E r \in rows :
              wk' = [wk EXCEPT ![w].ticket_id = r.ticket_id,
                               ![w].cand = {[id |-> i.id, message_id |-> i.message_id,
                                             ticket_id |-> i.ticket_id,
                                             created_at |-> i.created_at] : i \in rows},
                               ![w].pc = "store"]
    /\ UNCHANGED <<store, seq, uuid, clock, intx, status, locks, calls, assigned, sent, hist>>

\* ROLLBACK of lines 276 and 661: the rows of the transaction are dropped,
\* its locks released, and the call ends by raising.  The statement goes
\* through cursor.execute, so psycopg2 keeps its status.
RollbackAndRaise(w, l) ==
    /\ UNCHANGED status
    /\ items' = RollbackRows(w, items)
    /\ tickets' = RollbackRows(w, tickets)
    /\ queues' = RollbackRows(w, queues)
    /\ item_threads' = RollbackRows(w, item_threads)
    /\ intx' = [intx EXCEPT ![w] = FALSE]
    /\ locks' = [locks EXCEPT ![w] = {}]
    /\ hist' = hist \cup {Finished(l, w, "error", RollbackRows(w, items))}
    /\ wk' = [wk EXCEPT ![w] = Idle]

\* nextval replaced by a read of the sequence's last value, which does not
\* advance it.
nextval_LastValue(s) == IF s = 0 THEN 1 ELSE s

\* nextval('ticket_number_seq'): the value is taken for good, whatever the
\* transaction does later.
nextval(s) == s + 1

\* _create_new_ticket, lines 302-306: the ticket id and the next number.
NextTicketNumber(w) ==
    /\ wk[w].pc = "nextval"
    /\ UNCHANGED env
    /\ seq' = nextval(seq)
    /\ uuid' = uuid + 1
    /\ assigned' = Append(assigned, nextval(seq))
    /\ wk' = [wk EXCEPT ![w].ticket_id = uuid + 1,
                        ![w].n = nextval(seq),
                        ![w].ticket_number = format_ticket_number(nextval(seq)),
                        ![w].pc = "queue"]
    /\ UNCHANGED <<store, clock, intx, status, locks, calls, sent, hist>>

\* InsertTicket followed by a COMMIT of its own: the ticket row is committed
\* at once.
InsertTicket_Committed(w, l, queue_id) ==
    tickets \cup
      {[id |-> l.ticket_id, ticket_number |-> l.ticket_number, n |-> l.n,
        subject |-> (CHOOSE x \in l.msg : TRUE).subject, queue_id |-> queue_id,
        status_name |-> "New", assigned_supporter_id |-> 0,
        created_at |-> clock + 1, tx |-> 0, call |-> l.call,
        message_id |-> l.message_id]}

\* _create_new_ticket, lines 329-345: the tickets table after INSERT INTO
\* tickets (status 'New', no supporter) by worker w with locals l.
InsertTicket(w, l, queue_id) ==
    tickets \cup
      {[id |-> l.ticket_id, ticket_number |-> l.ticket_number, n |-> l.n,
        subject |-> (CHOOSE x \in l.msg : TRUE).subject, queue_id |-> queue_id,
        status_name |-> "New", assigned_supporter_id |-> 0,
        created_at |-> clock + 1, tx |-> w, call |-> l.call,
        message_id |-> l.message_id]}

\* _create_new_ticket, lines 309-345: the default queue is looked up; if there
\* is one, the ticket is inserted with it.
SelectQueue(w) ==
    /\ wk[w].pc = "queue"
    /\ UNCHANGED env
    /\ IF Visible(w, queues) = {}
       THEN /\ wk' = [wk EXCEPT ![w].queue_id = DefaultQueueId, ![w].pc = "newqueue"]
            /\ UNCHANGED <<tickets, clock>>
       ELSE \E q \in Visible(w, queues) :
              /\ wk' = [wk EXCEPT ![w].queue_id = q.id, ![w].pc = "store"]
              /\ tickets' = InsertTicket(w, wk[w], q.id)
              /\ clock' = clock + 1
    /\ UNCHANGED <<items, queues, item_threads, seq, uuid, intx, status, locks, calls,
                   assigned, sent, hist>>

\* InsertQueue as a plain INSERT that neither waits for nor notices the row
\* of another connection.
InsertQueue_Blind(w) ==
    /\ wk[w].pc = "newqueue"
    /\ UNCHANGED env
    /\ queues' = queues \cup {[id |-> DefaultQueueId, tx |-> w]}
    /\ tickets' = InsertTicket(w, wk[w], DefaultQueueId)
    /\ clock' = clock + 1
    /\ wk' = [wk EXCEPT ![w].pc = "store"]
    /\ UNCHANGED <<items, item_threads, seq, uuid, intx, status, locks, calls, assigned,
                   sent, hist>>

\* Lines 319-345: INSERT INTO queues ... ON CONFLICT (id) DO NOTHING waits for
\* a connection that has inserted the same id and not finished, and does
\* nothing if the id is committed; then the ticket is inserted.
InsertQueue(w) ==
    /\ wk[w].pc = "newqueue"
    /\ UNCHANGED env
    /\ ~ \E q \in queues : q.id = DefaultQueueId /\ q.tx \notin {0, w}
    /\ queues' = IF \E q \in queues : q.id = DefaultQueueId
                 THEN queues
                 ELSE queues \cup {[id |-> DefaultQueueId, tx |-> w]}
    /\ tickets' = InsertTicket(w, wk[w], DefaultQueueId)
    /\ clock' = clock + 1
    /\ wk' = [wk EXCEPT ![w].pc = "store"]
    /\ UNCHANGED <<items, item_threads, seq, uuid, intx, status, locks, calls, assigned,
                   sent, hist>>

\* WantsConfirmation with the References condition lost.
WantsConfirmation_IgnoresReferences(in_reply_to, references) ==
    in_reply_to = <<>>

\* The confirmation is sent only for a message without threading headers
\* (line 261).
WantsConfirmation(in_reply_to, references) ==
    in_reply_to = <<>> /\ references = <<>>

\* Lines 251-258: _get_email_body raises on an undecodable payload;
\* _store_email_in_db inserts the inbound item.  Under the unique index the
\* INSERT waits for an unfinished insert of the same message-id by another
\* connection and raises if the message-id is committed.
StoreEmail(w) ==
    LET l == wk[w]
        m == CHOOSE x \in l.msg : TRUE
        same == {i \in items : i.type = "email" /\ i.message_id = strip(m.mid)}
    IN
    /\ l.pc = "store"
    /\ UNCHANGED env
    /\ IF m.bad
       THEN /\ RollbackAndRaise(w, l)
            /\ UNCHANGED <<seq, uuid, clock, calls, assigned, sent>>
       ELSE /\ ItemsMessageIdUnique => ~ \E i \in same : i.tx \notin {0, w}
            /\ IF ItemsMessageIdUnique /\ same # {}
               THEN /\ RollbackAndRaise(w, l)
                    /\ UNCHANGED <<seq, uuid, clock, calls, assigned, sent>>
               ELSE /\ items' = items \cup
                         {[id |-> uuid + 1, ticket_id |-> l.ticket_id,
                           type |-> "email", message_id |-> strip(m.mid),
                           in_reply_to |-> strip(m.irt),
                           references_list |-> strip_all(l.references),
                           source |-> "customer", created_at |-> clock + 1,
                           tx |-> w, call |-> l.call]}
                    /\ uuid' = uuid + 1
                    /\ clock' = clock + 1
                    /\ wk' = [wk EXCEPT ![w].item_id = uuid + 1,
                                        ![w].pc = IF WantsConfirmation(l.in_reply_to,
                                                                       l.references)
                                                  THEN "confirm" ELSE "commit"]
                    /\ UNCHANGED <<tickets, queues, item_threads, seq, intx, status, locks,
                                   calls, assigned, sent, hist>>

\* msg['Message-ID'] = f"<{uuid.uuid4()}@{smtp_host}>" (line 540).
ConfirmationMessageId(u) == <<"<">> \o digits(u) \o <<"@", "h", ">">>

\* ConfirmationReferences with the own message-id put first instead of last.
ConfirmationReferences_OwnIdFirst(original_email) ==
    IF original_email = {} THEN <<>>
    ELSE LET o == CHOOSE x \in original_email : TRUE IN
         IF o.message_id = <<>> THEN <<>>
         ELSE <<o.message_id>>
              \o o.references_list
              \o (IF o.in_reply_to # <<>> THEN <<o.in_reply_to>> ELSE <<>>)

\* Lines 543-552: the references of the confirmation, from the row of the
\* originating item (the empty sequence stands for a NULL references_list).
ConfirmationReferences(original_email) ==
    IF original_email = {} THEN <<>>
    ELSE LET o == CHOOSE x \in original_email : TRUE IN
         IF o.message_id = <<>> THEN <<>>
         ELSE o.references_list
              \o (IF o.in_reply_to # <<>> THEN <<o.in_reply_to>> ELSE <<>>)
              \o <<o.message_id>>

\* Line 545: the In-Reply-To header of the confirmation (<<>>: not set).
ConfirmationInReplyTo(original_email) ==
    IF original_email = {} THEN <<>>
    ELSE LET o == CHOOSE x \in original_email : TRUE IN
         IF o.message_id = <<>> THEN <<>>
         ELSE <<"<">> \o o.message_id \o <<">">>

\* Lines 523-531: SELECT ... WHERE message_id = %s AND type = 'email'
\* ORDER BY created_at ASC LIMIT 1 (no row: the empty set).
OriginalEmail(w, original_message_id) ==
    LET rows == {i \in Visible(w, items) :
                    i.type = "email" /\ i.message_id = original_message_id}
    IN  {i \in rows : \A j \in rows : i.created_at <= j.created_at}

\* Line 552: msg['References'] = ' '.join(f"<{ref}>" for ref in references)
\* (<<>>: not set).
ReferencesHeader(references) ==
    join([i \in 1..Len(references) |-> <<"<">> \o references[i] \o <<">">>])

\* _create_confirmation_email, lines 534-552: the headers of the message
\* built for the row original_email, with the u-th uuid as Message-ID.
Confirmation(original_email, u, ticket_number) ==
    [message_id |-> ConfirmationMessageId(u),
     in_reply_to |-> ConfirmationInReplyTo(original_email),
     references |-> ConfirmationReferences(original_email),
     references_header |-> ReferencesHeader(ConfirmationReferences(original_email)),
     ticket_number |-> ticket_number]

\* Lines 598-621: the row INSERT INTO items writes for the confirmation c
\* (references_list <<>>: NULL).
ConfirmationItem(c, id, ticket_id, now, w, call) ==
    [id |-> id, ticket_id |-> ticket_id, type |-> "email",
     message_id |-> strip(c.message_id),
     in_reply_to |-> strip(c.in_reply_to),
     references_list |-> c.references, source |-> "supporter",
     created_at |-> now, tx |-> w, call |-> call]

\* _create_confirmation_email and lines 595-625 of _send_confirmation_email:
\* the message is built and the template rendered (template.render() raises
\* when the template cannot be read); BEGIN inside the open transaction starts
\* nothing; the confirmation item is inserted with source 'supporter'.
CreateConfirmation(w) ==
    LET l == wk[w]
        original_email == OriginalEmail(w, l.message_id)
        c == Confirmation(original_email, uuid + 1, l.ticket_number)
    IN
    /\ l.pc = "confirm"
    /\ UNCHANGED env
    /\ IF template_ok
       THEN   /\ items' = items \cup
                   {ConfirmationItem(c, uuid + 2, l.ticket_id, clock + 1, w, l.call)}
              /\ uuid' = uuid + 2
              /\ clock' = clock + 1
              /\ wk' = [wk EXCEPT ![w].original_email = original_email,
                                  ![w].conf = {c},
                                  ![w].conf_item = uuid + 2,
                                  ![w].pc = "thread"]
              /\ UNCHANGED <<tickets, queues, item_threads, seq, intx, status, locks, calls,
                             assigned, sent, hist>>
       ELSE   /\ RollbackAndRaise(w, l)
              /\ UNCHANGED <<seq, uuid, clock, calls, assigned, sent>>

\* ThreadEdge with the two columns exchanged.
ThreadEdge_Reversed(parent_id, item_id, w) ==
    [parent_item_id |-> item_id, child_item_id |-> parent_id, tx |-> w]

\* Lines 642-645: INSERT INTO item_threads (parent_item_id, child_item_id)
\* VALUES (parent_id, item_id), written by connection w.
ThreadEdge(parent_id, item_id, w) ==
    [parent_item_id |-> parent_id, child_item_id |-> item_id, tx |-> w]

\* Lines 628-648: SELECT id ... FOR UPDATE waits for rows locked by another
\* connection, locks the rows, and the edge parent -> child is inserted for
\* the row fetchone returns.
InsertThread(w) ==
    LET l == wk[w]
        o == l.original_email
        rows == IF o = {} THEN {}
                ELSE {i \in Visible(w, items) :
                         /\ i.type = "email"
                         /\ i.message_id = (CHOOSE x \in o : TRUE).message_id}
    IN
    /\ l.pc = "thread"
    /\ UNCHANGED env
    /\ IF o = {} \/ (CHOOSE x \in o : TRUE).message_id = <<>>
       THEN UNCHANGED <<item_threads, locks>>
       ELSE /\ \A i \in rows : i.id \notin LockedByOther(w)
            /\ locks' = [locks EXCEPT ![w] = @ \cup {i.id : i \in rows}]
            /\ IF rows = {}
               THEN UNCHANGED item_threads
               ELSE \E parent \in rows :
                      item_threads' = item_threads \cup
                        {ThreadEdge(parent.id, l.conf_item, w)}
    /\ wk' = [wk EXCEPT ![w].pc = "send"]
    /\ UNCHANGED <<items, tickets, queues, seq, uuid, clock, intx, status, calls,
                   assigned, sent, hist>>

\* _send_email, lines 507-516: what smtp.send_message hands over for the
\* confirmation built by the call with locals l.
SentMessage(l) ==
    LET c == CHOOSE x \in l.conf : TRUE IN
    [call |-> l.call, ticket_id |-> l.ticket_id,
     ticket_number |-> c.ticket_number, message_id |-> c.message_id,
     in_reply_to |-> c.in_reply_to, references |-> c.references]

\* Lines 650-655 and _send_email (lines 507-516): the SMTP session, inside the
\* transaction.  sent: send_message and quit return.  quit_failed:
\* send_message has handed the message over and smtp.quit() of the finally
\* clause raises.  failed: the connection, the login or send_message raises.
\* The store is not touched: the rows of the call stay uncommitted until the
\* COMMIT or ROLLBACK that follows.
SendConfirmation(w) ==
    LET l == wk[w] IN
    /\ l.pc = "send"
    /\ UNCHANGED env
    /\ \E r \in {"sent", "quit_failed", "failed"} :
         /\ sent' = IF r = "failed" THEN sent ELSE sent \cup {SentMessage(l)}
         /\ wk' = [wk EXCEPT ![w].send = r,
                             ![w].pc = IF r = "sent" THEN "sendcommit"
                                       ELSE "sendrollback"]
    /\ UNCHANGED <<store, seq, uuid, clock, intx, status, locks, calls, assigned, hist>>

\* Lines 657 and 271-273: COMMIT ends the one transaction of the connection,
\* and the COMMIT of _process_single_email that follows finds none open.
CommitConfirmation(w) ==
    LET l == wk[w] IN
    /\ l.pc = "sendcommit"
    /\ UNCHANGED <<env, status>>
    /\ items' = CommitRows(w, items)
    /\ tickets' = CommitRows(w, tickets)
    /\ queues' = CommitRows(w, queues)
    /\ item_threads' = CommitRows(w, item_threads)
    /\ intx' = [intx EXCEPT ![w] = FALSE]
    /\ locks' = [locks EXCEPT ![w] = {}]
    /\ hist' = hist \cup {Finished(l, w, "ok", CommitRows(w, items))}
    /\ wk' = [wk EXCEPT ![w] = Idle]
    /\ UNCHANGED <<seq, uuid, clock, calls, assigned, sent>>

\* Lines 659-662 and 275-278: ROLLBACK ends the transaction, dropping the
\* ticket and the inbound item with the confirmation item, and the exception
\* leaves _process_single_email (whose own ROLLBACK finds nothing).
RollbackConfirmation(w) ==
    LET l == wk[w] IN
    /\ l.pc = "sendrollback"
    /\ UNCHANGED env
    /\ RollbackAndRaise(w, l)
    /\ UNCHANGED <<seq, uuid, clock, calls, assigned, sent>>

\* Lines 271-273, for a message that gets no confirmation: COMMIT and return
\* ticket_id.
CommitEmail(w) ==
    LET l == wk[w] IN
    /\ l.pc = "commit"
    /\ UNCHANGED <<env, status>>
    /\ items' = CommitRows(w, items)
    /\ tickets' = CommitRows(w, tickets)
    /\ queues' = CommitRows(w, queues)
    /\ item_threads' = CommitRows(w, item_threads)
    /\ intx' = [intx EXCEPT ![w] = FALSE]
    /\ locks' = [locks EXCEPT ![w] = {}]
    /\ hist' = hist \cup {Finished(l, w, "ok", CommitRows(w, items))}
    /\ wk' = [wk EXCEPT ![w] = Idle]
    /\ UNCHANGED <<seq, uuid, clock, calls, assigned, sent>>

\* One step of one worker.
_process_single_email(w) ==
    \/ ResolveThread(w)
    \/ NextTicketNumber(w)
    \/ SelectQueue(w)
    \/ InsertQueue(w)
    \/ StoreEmail(w)
    \/ CreateConfirmation(w)
    \/ InsertThread(w)
    \/ SendConfirmation(w)
    \/ CommitConfirmation(w)
    \/ RollbackConfirmation(w)
    \/ CommitEmail(w)

\* The workers alone: each runs call after call of _process_single_email.
ProcessNext ==
    \E w \in Workers :
      \/ \E m \in mailbox : CheckDuplicate(w, m)
      \/ _process_single_email(w)

SpecProcess == ProcessInit /\ [][ProcessNext]_vars

(* ---------------------------------------------------------------------- *)
(* The public ticket methods of EmailProcessor.  Nothing in the repository *)
(* calls them: they are for a caller that holds an EmailProcessor object,  *)
(* and they run on the connection of that object.                          *)
(* ---------------------------------------------------------------------- *)

\* Number of calls of the public ticket methods in one behaviour.
MaxApiCalls == 2

\* The status names a caller passes: the two the code names ('New' of line
\* 338, 'Closed' of line 356).
Statuses == {"New", "Closed"}

\* UPDATE tickets SET assigned_supporter_id = %s WHERE id = %s on connection
\* w (lines 379-383): the rows w sees with that id are changed.
SetSupporter(w, ticket_id, supporter_id) ==
    {IF t.id = ticket_id /\ t.tx \in {0, w}
     THEN [t EXCEPT !.assigned_supporter_id = supporter_id] ELSE t : t \in tickets}

\* UPDATE tickets SET status_name = %s WHERE id = %s on connection w (lines
\* 396-400).
SetStatus(w, ticket_id, status_name) ==
    {IF t.id = ticket_id /\ t.tx \in {0, w}
     THEN [t EXCEPT !.status_name = status_name] ELSE t : t \in tickets}

\* The tickets table with the UPDATE of the method call a applied.
Updated(w, a) ==
    IF a.method = "assign"
    THEN SetSupporter(w, a.ticket_id, a.supporter_id)
    ELSE SetStatus(w, a.ticket_id, a.status_name)

\* The methods send no BEGIN.  Their first statement runs in a transaction if
\* one is open on the server (left by the early return of line 216), or if
\* the status of the connection is READY, in which case psycopg2 begins one.
\* After a COMMIT or ROLLBACK that _process_single_email sent through
\* cursor.execute the status is still BEGIN while the server has no
\* transaction: each statement is then committed on its own.
InTransaction(w) == intx[w] \/ status[w] = "READY"

\* Another connection has updated the ticket in a transaction it has not
\* ended: it holds the lock of the row, and an UPDATE of the row waits.
TicketLockedByOther(w, ticket_id) ==
    \E v \in Workers \ {w} : \E a \in wk[v].api :
       a.staged /\ a.ticket_id = ticket_id

\* The object of worker w can be called: the worker is between two calls
\* (self.conn is set as soon as process_emails has run on the object, whether
\* or not it found a message).
Callable(w) == wk[w].pc = "idle" /\ api_calls < MaxApiCalls

\* The UPDATE of lines 379-383 and 396-400 for the method call a on the
\* object of worker w.  In a transaction the change is staged (staged: it
\* shows to the other connections at the commit, and the row is locked until
\* then); otherwise it is committed at once.
ExecuteUpdate(w, a) ==
    /\ Callable(w)
    /\ ~ TicketLockedByOther(w, a.ticket_id)
    /\ api_calls' = api_calls + 1
    /\ intx' = [intx EXCEPT ![w] = InTransaction(w)]
    /\ status' = [status EXCEPT ![w] = "BEGIN"]
    /\ tickets' = IF InTransaction(w) THEN tickets ELSE Updated(w, a)
    /\ wk' = [wk EXCEPT ![w] =
                 [Idle EXCEPT !.api = {[a EXCEPT !.staged = InTransaction(w)]},
                              !.pc = IF a.method = "assign" THEN "api_insert"
                                     ELSE "api_commit"]]
    /\ UNCHANGED <<mailbox, template_ok, seen, supporters, ticket_assignments, lp, made,
                   items, queues, item_threads, seq, uuid, clock, locks, calls,
                   assigned, sent, hist>>

\* EmailProcessor.assign_supporter_to_ticket (lines 376-383) on the object of
\* worker w: the call, up to its UPDATE.
assign_supporter_to_ticket(w, ticket_id, supporter_id) ==
    ExecuteUpdate(w, [method |-> "assign", ticket_id |-> ticket_id,
                      supporter_id |-> supporter_id, status_name |-> "",
                      staged |-> FALSE])

\* EmailProcessor.update_ticket_status (lines 393-400) on the object of
\* worker w: the call, up to its UPDATE.
update_ticket_status(w, ticket_id, status_name) ==
    ExecuteUpdate(w, [method |-> "status", ticket_id |-> ticket_id,
                      supporter_id |-> 0, status_name |-> status_name,
                      staged |-> FALSE])

\* INSERT INTO ticket_assignments (id, ticket_id, supporter_id) ... ON CONFLICT
\* (ticket_id, supporter_id) DO NOTHING (lines 385-389): it waits for a
\* connection that has inserted the pair and not committed, does nothing if
\* the pair is there, and is committed at once outside a transaction.
InsertAssignment(w) ==
    LET a == CHOOSE x \in wk[w].api : TRUE
        same == {r \in ticket_assignments :
                    r.ticket_id = a.ticket_id /\ r.supporter_id = a.supporter_id}
    IN
    /\ wk[w].pc = "api_insert"
    /\ \A r \in same : r.tx \in {0, w}
    /\ uuid' = uuid + 1
    /\ ticket_assignments' =
         IF same # {} THEN ticket_assignments
         ELSE ticket_assignments \cup
                {[id |-> uuid + 1, ticket_id |-> a.ticket_id,
                  supporter_id |-> a.supporter_id,
                  tx |-> IF intx[w] THEN w ELSE 0]}
    /\ wk' = [wk EXCEPT ![w].pc = "api_commit"]
    /\ UNCHANGED <<mailbox, template_ok, seen, supporters, lp, made, api_calls, store,
                   seq, clock, intx, status, locks, calls, assigned, sent, hist>>

\* self.conn.commit() of lines 391 and 401: psycopg2 sends COMMIT and its
\* status is READY again.  A transaction that is open ends, the one left by
\* an earlier _process_single_email call included: the staged change of the
\* ticket shows, and the row locks go.
ApiCommit(w) ==
    LET a == CHOOSE x \in wk[w].api : TRUE IN
    /\ wk[w].pc = "api_commit"
    /\ items' = CommitRows(w, items)
    /\ tickets' = CommitRows(w, IF a.staged THEN Updated(w, a) ELSE tickets)
    /\ queues' = CommitRows(w, queues)
    /\ item_threads' = CommitRows(w, item_threads)
    /\ ticket_assignments' = CommitRows(w, ticket_assignments)
    /\ intx' = [intx EXCEPT ![w] = FALSE]
    /\ status' = [status EXCEPT ![w] = "READY"]
    /\ locks' = [locks EXCEPT ![w] = {}]
    /\ wk' = [wk EXCEPT ![w] = Idle]
    /\ UNCHANGED <<mailbox, template_ok, seen, supporters, lp, made, api_calls, seq,
                   uuid, clock, calls, assigned, sent, hist>>

\* A caller passes the id of a ticket its connection sees, and the id of a
\* supporter; a call that has begun goes on statement by statement.
ApiCall ==
    \E w \in Workers :
      \/ \E t \in Visible(w, tickets) :
           \/ \E s \in supporters : assign_supporter_to_ticket(w, t.id, s)
           \/ \E status_name \in Statuses : update_ticket_status(w, t.id, status_name)
      \/ InsertAssignment(w)
      \/ ApiCommit(w)

\* The workers and the callers of the public methods together, on a store
\* with supporters and a mailbox of a new message and a reply to it.
Init ==
    /\ mailbox = {MsgA, MsgR}
    /\ template_ok \in BOOLEAN
    /\ items = {}
    /\ tickets = {}
    /\ queues = {}
    /\ item_threads = {}
    /\ seq = 0
    /\ uuid = 0
    /\ clock = 0
    /\ intx = [w \in Workers |-> FALSE]
    /\ status = [w \in Workers |-> "READY"]
    /\ locks = [w \in Workers |-> {}]
    /\ wk = [w \in Workers |-> Idle]
    /\ calls = 0
    /\ assigned = <<>>
    /\ sent = {}
    /\ hist = {}
    /\ seen = {}
    /\ supporters = {1, 2}
    /\ ticket_assignments = {}
    /\ lp = NoLoop
    /\ made = {}
    /\ api_calls = 0

Next == ProcessNext \/ ApiCall

Spec == Init /\ [][Next]_vars

(* ---------------------------------------------------------------------- *)
(* main() of src/main.py and EmailProcessor.process_emails: one process    *)
(* that runs cycle after cycle on connection Proc.                         *)
(* ---------------------------------------------------------------------- *)

\* The connection of the process whose main() is followed.
Proc == 1

\* time.sleep(300) of main.py:27, time.sleep(60) of main.py:34,
\* time.sleep(10) of main.py:36.
ConfigBackoff == 300

ErrorBackoff == 60

CyclePause == 10

\* max_retries of process_emails (line 119).
max_retries == 3

\* The sections of a complete config file.
Sections == {"company", "database", "email"}

\* What os.path.exists and config.read (lines 31-34) can find: no config
\* file; one with the three sections; one that parses and has none of them
\* (or that cannot be opened, which config.read passes over); one that does
\* not parse; one whose bytes are no text in the encoding of the locale.
ConfigFiles == {"absent", "complete", "empty", "malformed", "undecodable"}

\* config.read of lines 32 and 34: it returns ("ok"), raises a
\* configparser.Error such as MissingSectionHeaderError (an Exception that
\* is no ValueError), or raises UnicodeDecodeError (a ValueError).
ConfigRead(config_file) ==
    CASE config_file = "malformed" -> "Exception"
      [] config_file = "undecodable" -> "ValueError"
      [] OTHER -> "ok"

\* EmailProcessor._load_config when config.read returns: the sections of the
\* ConfigParser it returns.  Without a config file the settings of the
\* environment go to self.config, which __init__ (line 23) then overwrites
\* with the returned, empty parser.
_load_config(config_file, env_set) ==
    IF config_file = "complete" THEN Sections ELSE {}

\* The sleep of the handlers of main(), exchanged.
Backoff_Swapped(err) ==
    IF err = "ValueError" THEN ErrorBackoff ELSE ConfigBackoff

\* main.py:21-34: the sleep of the handler that catches err.
Backoff(err) ==
    IF err = "ValueError" THEN ConfigBackoff ELSE ErrorBackoff

\* The handlers of main() with the one for Exception re-raising: main()
\* ends.
Caught_ReRaise(l, err) ==
    IF err = "ValueError"
    THEN [l EXCEPT !.err = err, !.raised_in = l.pc, !.pc = "handler"]
    ELSE [l EXCEPT !.err = err, !.raised_in = l.pc, !.pc = "dead"]

\* An exception of class err leaves process_emails (or the constructor) and
\* is caught by main() (main.py:21 and 28).
Caught(l, err) ==
    [l EXCEPT !.err = err, !.raised_in = l.pc, !.pc = "handler"]

\* The orders in which a search can list the messages of S.
Orders(S) ==
    {q \in [1..Cardinality(S) -> S] :
        \A i, j \in 1..Cardinality(S) : q[i] = q[j] => i = j}

\* The per-message handler with the batch given up after a failure.
Continue_Abort(todo) == <<>>

\* Lines 158-160: except Exception: log and continue with the next message.
Continue(todo) == Tail(todo)

\* The for loop of line 142 moves on (failed: the message raised) and
\* process_emails returns after the last message.
Advance(l, failed) ==
    LET todo == IF failed THEN Continue(l.todo) ELSE Tail(l.todo) IN
    [l EXCEPT !.todo = todo,
              !.cur = {},
              !.failed = IF failed THEN @ \cup {Head(l.todo)} ELSE @,
              !.pc = IF todo = <<>> THEN "pause" ELSE "fetch"]

\* What the loop leaves alone.
fixed == <<mailbox, template_ok, supporters, ticket_assignments, made, api_calls>>

work == <<store, seq, uuid, clock, intx, status, locks, wk, calls, assigned, sent, hist>>

\* main.py:15-16: the next iteration of while True enters the try: a cycle
\* starts.
StartCycle ==
    /\ lp.pc = "top"
    /\ lp' = [lp EXCEPT !.pc = "cycle"]
    /\ UNCHANGED <<fixed, work, seen>>

\* main.py:17-19: EmailProcessor() is built if there is none, and
\* process_emails is entered.  The constructor (lines 22-26) calls
\* _load_config, whose config.read may raise: processor stays None and the
\* exception goes to the handlers of main().
Construct ==
    /\ lp.pc = "cycle"
    /\ LET l == [lp EXCEPT !.err = "none", !.raised_in = "none", !.waited = 0,
                           !.attempt = 0, !.batch = {}, !.todo = <<>>,
                           !.attempted = {}, !.cur = {}]
       IN
       lp' = IF l.processor THEN [l EXCEPT !.pc = "connect_db"]
             ELSE IF ConfigRead(l.config_file) = "ok"
             THEN [l EXCEPT !.processor = TRUE,
                            !.config = _load_config(l.config_file, l.env_set),
                            !.pc = "connect_db"]
             ELSE Caught(l, ConfigRead(l.config_file))
    /\ UNCHANGED <<fixed, work, seen>>

\* _connect_db (lines 61-69): self.config['database'] raises KeyError when
\* the section is missing; an open connection is kept; psycopg2.connect may
\* raise.
ConnectDb ==
    /\ lp.pc = "connect_db"
    /\ IF "database" \notin lp.config
       THEN lp' = Caught(lp, "Exception")
       ELSE IF lp.conn
            THEN lp' = [lp EXCEPT !.pc = "connect_imap"]
            ELSE \E ok \in BOOLEAN :
                   lp' = IF ok THEN [lp EXCEPT !.conn = TRUE, !.pc = "connect_imap"]
                         ELSE Caught(lp, "Exception")
    /\ UNCHANGED <<fixed, work, seen>>

\* The test of line 127 one attempt late.
LastAttempt_OneMore(attempt) == attempt = max_retries

\* Line 127: if attempt == max_retries - 1: raise.
LastAttempt(attempt) == attempt = max_retries - 1

\* Lines 119-130 and _connect_imap: one attempt.  It may raise an Exception
\* (connection refused, timeout, login rejected) or a ValueError (the
\* UnicodeError of a host name that cannot be encoded or of credentials that
\* are not ASCII); the last attempt re-raises.
ConnectImap ==
    /\ lp.pc = "connect_imap"
    /\ \E r \in IF "email" \in lp.config THEN {"ok", "Exception", "ValueError"}
                ELSE {"Exception"} :
         lp' = IF r = "ok" THEN [lp EXCEPT !.pc = "search"]
               ELSE IF LastAttempt(lp.attempt) THEN Caught(lp, r)
               ELSE [lp EXCEPT !.attempt = @ + 1]
    /\ UNCHANGED <<fixed, work, seen>>

\* Lines 132-139: mail.select and mail.search(None, 'UNSEEN').  Nothing
\* unseen: process_emails returns.
Search ==
    /\ lp.pc = "search"
    /\ \E ok \in BOOLEAN :
         IF ~ ok THEN lp' = Caught(lp, "Exception")
         ELSE IF mailbox \ seen = {} THEN lp' = [lp EXCEPT !.pc = "pause"]
         ELSE \E todo \in Orders(mailbox \ seen) :
                lp' = [lp EXCEPT !.batch = mailbox \ seen, !.todo = todo,
                                 !.pc = "fetch"]
    /\ UNCHANGED <<fixed, work, seen>>

\* Lines 143-146: mail.fetch(message_number, '(RFC822)') in the mailbox
\* selected read-write; the server sets \Seen on the message it returns.  A
\* fetch that raises is caught by line 158.
Fetch ==
    /\ lp.pc = "fetch"
    /\ LET m == Head(lp.todo) IN
       \E ok \in BOOLEAN :
         IF ok
         THEN /\ seen' = seen \cup {m}
              /\ lp' = [lp EXCEPT !.cur = {m}, !.mark = calls,
                                  !.attempted = @ \cup {m}, !.pc = "process"]
         ELSE /\ seen' = seen
              /\ lp' = Advance([lp EXCEPT !.attempted = @ \cup {m}], TRUE)
    /\ UNCHANGED <<fixed, work>>

\* The call of the fetched message has ended.
CallOf(l) == {h \in hist : h.w = Proc /\ h.call > l.mark}

\* Line 149: self._process_single_email(email_message).
ProcessMessage ==
    /\ lp.pc = "process"
    /\ CallOf(lp) = {}
    /\ \E m \in lp.cur : CheckDuplicate(Proc, m)

\* Lines 150-160: the call returned or raised; either way the loop goes on.
MessageDone ==
    /\ lp.pc = "process"
    /\ wk[Proc].pc = "idle"
    /\ \E h \in CallOf(lp) : lp' = Advance(lp, h.result = "error")
    /\ UNCHANGED <<fixed, work, seen>>

\* The connection of the process is closed (EmailProcessor.__del__, or the
\* end of the process): the server rolls back what it had not committed, and
\* the next connection starts with status READY.
CloseConnection ==
    /\ items' = RollbackRows(Proc, items)
    /\ tickets' = RollbackRows(Proc, tickets)
    /\ queues' = RollbackRows(Proc, queues)
    /\ item_threads' = RollbackRows(Proc, item_threads)
    /\ intx' = [intx EXCEPT ![Proc] = FALSE]
    /\ status' = [status EXCEPT ![Proc] = "READY"]
    /\ locks' = [locks EXCEPT ![Proc] = {}]

\* main.py:21-27 and 28-34: the handler that catches err sets processor to
\* None (it is None already when the constructor raised) and sleeps.  The
\* EmailProcessor object lives on while the handler runs (the caught
\* exception refers to it through its traceback), so during the sleep the
\* connection is open, with its transaction and its row locks.
Handler ==
    /\ lp.pc = "handler"
    /\ lp' = [lp EXCEPT !.processor = FALSE, !.pc = "backoff"]
    /\ UNCHANGED <<fixed, work, seen>>

\* The sleep of the handler is over and the except block ends: the exception
\* is released, and with it the EmailProcessor object, whose __del__ closes
\* the connection.
EndHandler ==
    /\ lp.pc = "backoff"
    /\ lp' = [lp EXCEPT !.conn = FALSE, !.config = {},
                        !.waited = Backoff(lp.err), !.pc = "pause"]
    /\ CloseConnection
    /\ UNCHANGED <<fixed, seen, seq, uuid, clock, wk, calls, assigned, sent, hist>>

\* main.py:36: time.sleep(10), then the next iteration of while True.
Pause ==
    /\ lp.pc = "pause"
    /\ lp' = [lp EXCEPT !.waited = @ + CyclePause, !.pc = "top"]
    /\ UNCHANGED <<fixed, work, seen>>

\* KeyboardInterrupt (main.py:38-43): raised wherever the process is; no
\* except Exception clause catches it, so the call in progress is abandoned
\* where it stands and sys.exit(0) ends the process.  When the call stood
\* inside the SMTP session the confirmation may have left already.
Interrupt ==
    /\ lp.pc \notin {"off", "cancelled", "dead"}
    /\ lp' = [lp EXCEPT !.pc = "cancelled", !.at = wk[Proc].pc,
                        !.processor = FALSE, !.conn = FALSE]
    /\ CloseConnection
    /\ wk' = [wk EXCEPT ![Proc] = Idle]
    /\ IF wk[Proc].pc = "send"
       THEN \E delivered \in BOOLEAN :
              sent' = IF delivered THEN sent \cup {SentMessage(wk[Proc])} ELSE sent
       ELSE sent' = sent
    /\ UNCHANGED <<fixed, seen, seq, uuid, clock, calls, assigned, hist>>

\* The mailboxes the loop is followed on: those of Mailboxes, and one with
\* two different messages that both lack a Message-ID.
LoopMailboxes == Mailboxes \cup {{MsgN, MsgM}}

\* The steps the process takes by itself.
Run ==
    \/ StartCycle
    \/ Construct
    \/ ConnectDb
    \/ ConnectImap
    \/ Search
    \/ Fetch
    \/ ProcessMessage
    \/ _process_single_email(Proc)
    \/ MessageDone
    \/ Handler
    \/ EndHandler
    \/ Pause

LoopInit ==
    /\ mailbox \in LoopMailboxes
    /\ template_ok \in BOOLEAN
    /\ items = {}
    /\ tickets = {}
    /\ queues = {}
    /\ item_threads = {}
    /\ seq = 0
    /\ uuid = 0
    /\ clock = 0
    /\ intx = [w \in Workers |-> FALSE]
    /\ status = [w \in Workers |-> "READY"]
    /\ locks = [w \in Workers |-> {}]
    /\ wk = [w \in Workers |-> Idle]
    /\ calls = 0
    /\ assigned = <<>>
    /\ sent = {}
    /\ hist = {}
    /\ seen = {}
    /\ supporters \in {{}, {1, 2}}
    /\ ticket_assignments = {}
    /\ lp \in {[NoLoop EXCEPT !.pc = "top", !.config_file = f, !.env_set = e] :
                  f \in ConfigFiles, e \in BOOLEAN}
    /\ made = {}
    /\ api_calls = 0

LoopNext == Run \/ Interrupt

SpecLoop == LoopInit /\ [][LoopNext]_vars

\* The loop is followed for ever on one mailbox that takes it through every
\* step: a new message, a reply to an unknown message and an undecodable one.
FairInit ==
    /\ LoopInit
    /\ mailbox = {MsgA, MsgU, MsgX}
    /\ supporters = {}
    /\ lp.env_set = FALSE

\* What main() does once process_emails or the constructor has returned or
\* raised: the handler (logging, del, gc.collect), its time.sleep, the
\* time.sleep(10) and the jump to the top of while True.  None of it waits
\* for a peer, and a sleep ends.
AfterOutcome == Handler \/ EndHandler \/ Pause \/ StartCycle

\* Only the steps of AfterOutcome are sure to be taken.  A step inside
\* process_emails may never come: psycopg2.connect (lines 63-68), the SQL
\* statements and smtplib.SMTP_SSL (line 511) are called without a timeout
\* and can block for ever (only the IMAP connection has one, timeout=30).
SpecLoopFair == FairInit /\ [][LoopNext]_vars /\ WF_vars(AfterOutcome)

(* ---------------------------------------------------------------------- *)
(* _create_confirmation_email applied to a given originating row.          *)
(* ---------------------------------------------------------------------- *)

\* Longest references list of an originating row.
MaxRefs == 2

\* Message-ids of the rows.
Ids == {<<"a">>, <<"b">>, <<"c">>}

\* The lists of at most n message-ids.
RefLists(n) == UNION {[1..k -> Ids] : k \in 0..n}

\* The rows SELECT message_id, in_reply_to, references_list FROM items can
\* return: message_id and in_reply_to may be '' and references_list NULL.
Originals ==
    {[message_id |-> m, in_reply_to |-> r, references_list |-> R] :
        m \in Ids \cup {<<>>}, r \in Ids \cup {<<>>}, R \in RefLists(MaxRefs)}

ConfInit ==
    /\ mailbox = {}
    /\ template_ok = TRUE
    /\ items = {}
    /\ tickets = {}
    /\ queues = {}
    /\ item_threads = {}
    /\ seq = 0
    /\ uuid = 0
    /\ clock = 0
    /\ intx = [w \in Workers |-> FALSE]
    /\ status = [w \in Workers |-> "READY"]
    /\ locks = [w \in Workers |-> {}]
    /\ wk = [w \in Workers |-> Idle]
    /\ calls = 0
    /\ assigned = <<>>
    /\ sent = {}
    /\ hist = {}
    /\ seen = {}
    /\ supporters = {}
    /\ ticket_assignments = {}
    /\ lp = NoLoop
    /\ made \in {{[orig |-> o, conf |-> {}, item |-> {}]} : o \in Originals}
    /\ api_calls = 0

\* Lines 534-552 and 598-621 on the given row: the message is built and the
\* row of the confirmation item computed.
BuildConfirmation ==
    /\ \E x \in made :
         /\ x.conf = {}
         /\ LET c == Confirmation({x.orig}, 1, format_ticket_number(1)) IN
            made' = {[x EXCEPT !.conf = {c},
                               !.item = {ConfirmationItem(c, 2, 1, 1, Proc, 1)}]}
    /\ UNCHANGED <<mailbox, template_ok, seen, supporters, ticket_assignments, lp, work,
                   api_calls>>

ConfNext == BuildConfirmation

SpecConf == ConfInit /\ [][ConfNext]_vars

(* ---------------------------------------------------------------------- *)
(* Properties.                                                             *)
(* ---------------------------------------------------------------------- *)

\* The committed 'email' items with message-id mid.
EmailItems(mid) ==
    {i \in Committed(items) : i.type = "email" /\ i.message_id = mid}

\* The message of a finished call.
MsgOf(h) == CHOOSE x \in h.msg : TRUE

\* The finished call read no threading header from its message.
NoThreadingHeaders(h) ==
    strip(MsgOf(h).irt) = <<>> /\ strip_all(split(MsgOf(h).refs)) = <<>>

\* C1: a message-id delivered twice, to one worker or to two racing workers,
\* ends as exactly one committed 'email' item and at most one committed ticket:
\* no two committed 'email' items share a message-id, no two committed tickets
\* were created for the same message-id, and once a call for a message-id has
\* returned normally exactly one committed 'email' item carries it.
C1_Idempotent ==
    /\ \A i, j \in Committed(items) :
         (i.type = "email" /\ j.type = "email" /\ i.message_id = j.message_id)
            => i = j
    /\ \A t, u \in Committed(tickets) : t.message_id = u.message_id => t = u
    /\ \A h \in hist :
         h.result \in {"ok", "skipped"} => Cardinality(EmailItems(h.message_id)) = 1

\* C1 witness: two workers have each finished a call for the same message-id,
\* both had taken a ticket number for it, and one committed.
C1_Witness ==
    \E g, h \in hist :
       /\ g.w # h.w
       /\ g.message_id = h.message_id
       /\ g.message_id # <<>>
       /\ g.result = "ok" /\ g.n > 0
       /\ h.result = "error" /\ h.n > 0 /\ h.lost

\* C2: the worker that loses a race on a message-id (its message has a
\* Message-ID, and another call's item with that message-id is committed when
\* it finishes) ends as a no-op success: it returns normally, and has taken
\* no ticket number, stored no item and sent no confirmation.
C2_LoserIsNoOpSuccess ==
    \A h \in hist :
       (h.lost /\ h.message_id # <<>>) =>
          /\ h.result = "skipped"
          /\ h.n = 0
          /\ h.item_id = 0
          /\ h.send = "no"

\* C3: after a failed send the confirmation item is absent, the new ticket and
\* the inbound item are committed, and the call has raised.
C3_SendFailureKeepsTicket ==
    \A h \in hist :
       h.send \in {"failed", "quit_failed"} =>
          /\ h.result = "error"
          /\ ~ \E i \in Committed(items) : i.id = h.conf_item
          /\ \E t \in Committed(tickets) : t.id = h.ticket_id
          /\ \E i \in Committed(items) : i.id = h.item_id

\* C4: every committed ticket has exactly one confirmation sent and exactly
\* one confirmation item stored, whatever threading headers its message had.
C4_OneConfirmationPerTicket ==
    \A t \in Committed(tickets) :
       /\ Cardinality({c \in sent : c.ticket_id = t.id}) = 1
       /\ Cardinality({i \in Committed(items) :
                          i.ticket_id = t.id /\ i.source = "supporter"}) = 1

\* C5: a confirmation is dispatched only in a call that ran
\* _create_new_ticket, with the number that call created: a worker inside
\* _send_confirmation_email holds a ticket row of its own call under the
\* ticket id and number it passes on, it found no item to thread to, and
\* every confirmation sent names the ticket created by the call that sent it.
C5_ConfirmationOnlyForNewTicket ==
    /\ \A w \in Workers :
         wk[w].pc \in {"confirm", "thread", "send", "sendcommit", "sendrollback"} =>
            /\ wk[w].cand = {}
            /\ \E t \in tickets :
                 /\ t.call = wk[w].call
                 /\ t.id = wk[w].ticket_id
                 /\ t.n = wk[w].n
                 /\ t.ticket_number = wk[w].ticket_number
    /\ \A c \in sent :
         \/ \E w \in Workers :
               /\ wk[w].call = c.call
               /\ wk[w].n > 0
               /\ wk[w].ticket_id = c.ticket_id
               /\ format_ticket_number(wk[w].n) = c.ticket_number
         \/ \E h \in hist :
               /\ h.call = c.call
               /\ h.n > 0
               /\ h.ticket_id = c.ticket_id
               /\ format_ticket_number(h.n) = c.ticket_number
    /\ \A h \in hist : h.send # "no" => h.n > 0 /\ h.cand = {}

\* C5 witness: a confirmation has been sent, and a call that resolved its
\* message to an existing ticket has finished without sending one.
C5_Witness ==
    /\ sent # {}
    /\ \E h \in hist : h.result = "ok" /\ h.cand # {} /\ h.n = 0 /\ h.send = "no"

\* C6: a reply whose In-Reply-To is the message-id of a stored item is stored
\* on that item's ticket and takes no new ticket, whatever its subject and
\* References are.
C6_ReplyJoinsTicketOfInReplyTo ==
    \A h \in hist :
       h.result = "ok" =>
          \A c \in h.cand :
             c.message_id = strip(MsgOf(h).irt) =>
                /\ h.ticket_id = c.ticket_id
                /\ h.n = 0

\* The ticket the tie-break of thread resolution names for the matching rows
\* cand: that of the row matching in_reply_to, else that of the newest row.
PreferredTicket(cand, in_reply_to) ==
    LET exact == {c \in cand : c.message_id = in_reply_to}
        from == IF exact # {} THEN exact ELSE cand
    IN  (CHOOSE c \in from : \A d \in from : d.created_at <= c.created_at).ticket_id

\* C7: when the matching items belong to different tickets, thread resolution
\* returns the ticket of the item matching in_reply_to, else that of the most
\* recently created matching item.
C7_TieBreak ==
    \A w \in Workers :
       (wk[w].cand # {} /\ \E c, d \in wk[w].cand : c.ticket_id # d.ticket_id)
          => wk[w].ticket_id = PreferredTicket(wk[w].cand, wk[w].in_reply_to)

\* C8: a message without threading headers whose subject tag names an
\* existing ticket is stored on that ticket and takes no new ticket; when the
\* tag names no ticket a new ticket is created.
C8_TagFallback ==
    \A h \in hist :
       (h.result = "ok" /\ NoThreadingHeaders(h)) =>
          IF h.tagged # {}
          THEN h.ticket_id \in h.tagged /\ h.n = 0
          ELSE h.n > 0

\* C9: the ticket numbers ever assigned are pairwise distinct and strictly
\* increasing in the order of assignment, and no two ticket rows (committed or
\* not) carry the same formatted number.
C9_NumbersUniqueAndIncreasing ==
    /\ \A i, j \in 1..Len(assigned) : i < j => assigned[i] < assigned[j]
    /\ \A t, u \in tickets : t.ticket_number = u.ticket_number => t = u
    /\ \A t \in tickets : \E i \in 1..Len(assigned) : assigned[i] = t.n

\* C9 witness: after a call that took a number was rolled back, two workers
\* hold numbers of their own at the same time.
C9_Witness ==
    /\ \E h \in hist : h.result = "error" /\ h.n > 0
    /\ \A w \in Workers : wk[w].n > 0

\* C10: the code retries no allocation, so the retry policy accounts for no
\* skipped number: every sequence value consumed is the number of a committed
\* ticket or is held by a call still running.
C10_GapsBounded ==
    \A k \in 1..seq :
       \/ \E t \in Committed(tickets) : t.n = k
       \/ \E w \in Workers : wk[w].n = k

(* ---------------------------------------------------------------------- *)
(* Properties of the loop (SpecLoop).                                      *)
(* ---------------------------------------------------------------------- *)

\* C11: a message whose processing raised in a cycle is unseen when the
\* cycle is over, so that the UNSEEN search of a later cycle lists it again.
C11_FailedMessageStaysUnseen ==
    lp.pc = "top" =>
      \A h \in hist : h.w = Proc /\ h.result = "error" => MsgOf(h) \notin seen

\* C12: a message of a batch that raises, at its fetch or in its processing,
\* does not end the batch: no exception leaves process_emails once the batch
\* has started, every message of the batch is attempted before process_emails
\* returns, and what the calls of the other messages committed stays
\* committed.
C12_FailureDoesNotAbortBatch ==
    /\ lp.pc = "handler" => lp.batch = {}
    /\ lp.pc \in {"fetch", "process"} =>
         lp.batch = lp.attempted \cup Range(lp.todo)
    /\ lp.pc = "pause" => lp.attempted = lp.batch
    /\ \A h \in hist :
         h.w = Proc /\ h.result = "ok" =>
           /\ \E i \in Committed(items) : i.id = h.item_id /\ i.call = h.call
           /\ \E t \in Committed(tickets) : t.id = h.ticket_id

\* C12 witness: a batch is over in which one message raised and a message
\* attempted after it was stored.
C12_Witness ==
    /\ lp.pc = "pause"
    /\ \E h1, h2 \in hist :
         /\ h1.result = "error" /\ h2.result = "ok" /\ h1.call < h2.call
         /\ MsgOf(h1) \in lp.batch /\ MsgOf(h2) \in lp.batch
         /\ MsgOf(h1) \in lp.failed
         /\ \E i \in Committed(items) : i.id = h2.item_id

\* _assign_supporter, lines 350-359: the number of tickets not 'Closed' that
\* connection w sees assigned to supporter s.
OpenTickets(w, s) ==
    Cardinality({t \in Visible(w, tickets) :
                    t.assigned_supporter_id = s /\ t.status_name # "Closed"})

\* _assign_supporter, lines 350-361: the supporters the SELECT ... ORDER BY
\* (count) LIMIT 1 may return (none: the empty set).  No statement of
\* process_emails calls _assign_supporter.
LeastLoaded(w) ==
    {s \in supporters : \A r \in supporters : OpenTickets(w, s) <= OpenTickets(w, r)}

\* C13: a ticket that has been created is assigned when supporters exist (to
\* one of them, with a ticket_assignments row that says so) and stays
\* unassigned when none exists.
C13_NewTicketIsAssigned ==
    \A t \in Committed(tickets) :
      IF supporters = {}
      THEN t.assigned_supporter_id = 0
      ELSE /\ t.assigned_supporter_id \in supporters
           /\ \E a \in Committed(ticket_assignments) :
                a.ticket_id = t.id /\ a.supporter_id = t.assigned_supporter_id

\* C14: a confirmation that was sent and whose call committed is a committed
\* 'email' item with source 'supporter' on the ticket of the call, and exactly
\* one committed thread edge has it as child; the parent of that edge is the
\* inbound item of the call.
C14_ConfirmationStoredWithEdge ==
    \A c \in sent : \A h \in hist :
      h.call = c.call /\ h.result = "ok" =>
        \E i \in Committed(items) :
          /\ i.id = h.conf_item
          /\ i.type = "email"
          /\ i.source = "supporter"
          /\ i.ticket_id = h.ticket_id
          /\ i.message_id = strip(c.message_id)
          /\ {e \in Committed(item_threads) : e.child_item_id = i.id}
               = {[parent_item_id |-> h.item_id, child_item_id |-> i.id, tx |-> 0]}

\* The sleeps after an exception that left the cycle: 300 seconds after a
\* ValueError and 60 after any other exception when the handler is over, and
\* 10 more when the next cycle is about to start.
BackoffByClass ==
    /\ lp.pc = "pause" /\ lp.err = "ValueError" => lp.waited = ConfigBackoff
    /\ lp.pc = "pause" /\ lp.err = "Exception" => lp.waited = ErrorBackoff
    /\ lp.pc = "top" /\ lp.err = "ValueError" =>
         /\ lp.waited = ConfigBackoff + CyclePause
         /\ lp.waited > ErrorBackoff + CyclePause
    /\ lp.pc = "top" /\ lp.err = "Exception" =>
         /\ lp.waited = ErrorBackoff + CyclePause
         /\ lp.waited < ConfigBackoff + CyclePause

\* C15: an exception that leaves the cycle (raised by process_emails or by
\* the constructor) is followed by the sleep of its handler, then by the top
\* of the loop, then by a new cycle, unless the process is interrupted; when
\* the next cycle is about to start the process has slept 300 + 10 seconds
\* after a ValueError and 60 + 10 seconds after any other exception, the
\* first strictly longer than the second.
C15_BackoffLongerForValueError ==
    /\ []BackoffByClass
    /\ (lp.pc = "handler" /\ lp.err = "ValueError")
         ~> ((lp.pc = "cycle" /\ lp.err = "ValueError"
                /\ lp.waited = ConfigBackoff + CyclePause)
             \/ lp.pc = "cancelled")
    /\ (lp.pc = "handler" /\ lp.err = "Exception")
         ~> ((lp.pc = "cycle" /\ lp.err = "Exception"
                /\ lp.waited = ErrorBackoff + CyclePause)
             \/ lp.pc = "cancelled")

\* C15 witness: a cycle ended with a ValueError (all three IMAP attempts
\* failed, the last with a ValueError), the sleeps are over and the next
\* cycle has started.
C15_Witness ==
    /\ lp.pc = "cycle"
    /\ lp.err = "ValueError"
    /\ lp.attempt = max_retries - 1
    /\ lp.waited = ConfigBackoff + CyclePause

\* C16: main() has no end but cancellation.  No state but the cancelled one
\* is without a step of the process, and whatever a cycle ends with (nothing
\* unseen, a batch processed, a ValueError or any other exception, raised by
\* process_emails or by the constructor), the process gets through its
\* sleeps and starts another cycle, unless it is interrupted.
C16_LoopHasNoTerminalState ==
    /\ [](lp.pc # "cancelled" => ENABLED Run)
    /\ (lp.pc = "pause" /\ lp.err = "none" /\ lp.batch = {})
         ~> (lp.pc = "cycle" \/ lp.pc = "cancelled")
    /\ (lp.pc = "pause" /\ lp.err = "none" /\ lp.batch # {})
         ~> (lp.pc = "cycle" \/ lp.pc = "cancelled")
    /\ (lp.pc = "handler" /\ lp.err = "ValueError" /\ lp.raised_in # "cycle")
         ~> (lp.pc = "cycle" \/ lp.pc = "cancelled")
    /\ (lp.pc = "handler" /\ lp.err = "Exception" /\ lp.raised_in # "cycle")
         ~> (lp.pc = "cycle" \/ lp.pc = "cancelled")
    /\ (lp.pc = "handler" /\ lp.raised_in = "cycle")
         ~> (lp.pc = "cycle" \/ lp.pc = "cancelled")

\* C16 witness: a cycle has started after a cycle in which the constructor
\* raised (processor is None and the two sleeps are over).
C16_Witness ==
    /\ lp.pc = "cycle"
    /\ lp.raised_in = "cycle"
    /\ lp.err = ConfigRead(lp.config_file)
    /\ lp.waited = Backoff(lp.err) + CyclePause
    /\ ~ lp.processor

\* C17: when no config file exists and the settings of the environment are
\* absent, the cycle fails with a configuration-class error: the next cycle
\* starts after the long wait (300 + 10 seconds), not after the short one.
C17_MissingSettingsGetLongBackoff ==
    lp.config_file = "absent" /\ ~ lp.env_set /\ lp.pc = "top" /\ lp.err # "none" =>
      /\ lp.err = "ValueError"
      /\ lp.waited = ConfigBackoff + CyclePause

\* The confirmation c went out and everything of its call is committed: the
\* ticket, the inbound item and the confirmation item.
FullyCommitted(c) ==
    /\ \E t \in Committed(tickets) : t.id = c.ticket_id
    /\ \E i \in Committed(items) :
         i.call = c.call /\ i.source = "customer" /\ i.ticket_id = c.ticket_id
    /\ \E i \in Committed(items) :
         /\ i.call = c.call /\ i.source = "supporter"
         /\ i.message_id = strip(c.message_id)

\* C18: when the process has exited on KeyboardInterrupt no call was cut
\* short (the message in progress was completed first), and no message is
\* left half done: a confirmation that went out has, once its call is over,
\* its ticket, inbound item and confirmation item committed.
C18_ShutdownCompletesMessage ==
    /\ lp.pc = "cancelled" => lp.at \in {"none", "idle"}
    /\ \A c \in sent :
         (\A w \in Workers : wk[w].call # c.call) => FullyCommitted(c)

(* ---------------------------------------------------------------------- *)
(* Properties of the confirmation (SpecConf) and of the thread edges.      *)
(* ---------------------------------------------------------------------- *)

\* The confirmation built from row o answers o: In-Reply-To is o's
\* message-id, the references are o's references in order, then o's
\* in-reply-to if it has one, then o's message-id last, the References header
\* lists the same ids, and the stored item i records the same in_reply_to and
\* references.
AnswersOriginal(o, c, i) ==
    LET R == o.references_list
        k == Len(R) + (IF o.in_reply_to # <<>> THEN 1 ELSE 0)
    IN
    /\ strip(c.in_reply_to) = o.message_id
    /\ Len(c.references) = k + 1
    /\ SubSeq(c.references, 1, Len(R)) = R
    /\ o.in_reply_to # <<>> => c.references[k] = o.in_reply_to
    /\ c.references[k + 1] = o.message_id
    /\ strip_all(split(c.references_header)) = c.references
    /\ i.in_reply_to = o.message_id
    /\ i.references_list = c.references

\* C19 as stated: the confirmation built for any originating row answers it.
C19_ConfirmationAnswersOriginal ==
    \A x \in made : \A c \in x.conf : \A i \in x.item :
      AnswersOriginal(x.orig, c, i)

\* C19: the confirmation built for an originating row with a message-id
\* answers it; for a row whose message_id is '' the confirmation has no
\* In-Reply-To and no References, and the stored item an empty in_reply_to
\* and no references list.
C19_ConfirmationAnswersOriginalWithId ==
    \A x \in made : \A c \in x.conf : \A i \in x.item :
      IF x.orig.message_id # <<>>
      THEN AnswersOriginal(x.orig, c, i)
      ELSE /\ c.in_reply_to = <<>>
           /\ c.references = <<>>
           /\ c.references_header = <<>>
           /\ i.in_reply_to = <<>>
           /\ i.references_list = <<>>

\* C19 witness: a confirmation built for a row that has a message-id, an
\* in-reply-to and two references.
C19_Witness ==
    \E x \in made :
      /\ x.conf # {} /\ x.item # {}
      /\ x.orig.message_id # <<>>
      /\ x.orig.in_reply_to # <<>>
      /\ Len(x.orig.references_list) = 2

\* The items from which the committed edges lead to item i in at most n steps.
RECURSIVE Ancestors(_, _)
Ancestors(i, n) ==
    IF n = 0 THEN {}
    ELSE LET up == {e.parent_item_id : e \in {e \in Committed(item_threads) :
                                                 e.child_item_id = i}}
         IN  up \cup UNION {Ancestors(j, n - 1) : j \in up}

\* C20: the committed thread edges form a forest: an item is the child of at
\* most one edge, no item is its own ancestor, and both ends of an edge are
\* committed items of which the parent was stored before the child.
C20_ThreadsFormForest ==
    LET E == Committed(item_threads) IN
    /\ \A e1, e2 \in E : e1.child_item_id = e2.child_item_id => e1 = e2
    /\ \A e \in E : e.child_item_id \notin Ancestors(e.child_item_id, Cardinality(E))
    /\ \A e \in E :
         \E p, c \in Committed(items) :
           /\ p.id = e.parent_item_id
           /\ c.id = e.child_item_id
           /\ p.created_at < c.created_at

\* C20 witness: two confirmations are committed, each with its edge.
C20_Witness ==
    /\ Cardinality(Committed(item_threads)) = 2
    /\ \A e \in Committed(item_threads) :
         \E c \in Committed(items) : c.id = e.child_item_id /\ c.source = "supporter"

(* ---------------------------------------------------------------------- *)
(* Properties of racing workers (SpecProcess), continued.                  *)
(* ---------------------------------------------------------------------- *)

\* C21: the default queue is created once: the queues table never holds two
\* rows with its id, committed or not; a call fails only for a reason of its
\* own message (undecodable payload, message-id already stored, template,
\* send), never because another worker created the queue; and the queue of
\* every committed ticket is a committed row.
C21_DefaultQueueCreatedOnce ==
    /\ Cardinality({q \in queues : q.id = DefaultQueueId}) <= 1
    /\ \A h \in hist :
         h.result = "error" =>
           \/ MsgOf(h).bad
           \/ h.lost
           \/ ~ template_ok
           \/ h.send \in {"failed", "quit_failed"}
    /\ \A t \in Committed(tickets) :
         \E q \in Committed(queues) : q.id = t.queue_id

\* C21 witness: two workers allocate on a store without queue: both found
\* none, worker 1 has inserted the default queue and not committed, and
\* worker 2 stands before its own INSERT.
C21_Witness ==
    /\ wk[2].pc = "newqueue"
    /\ \E q \in queues : q.tx = 1
    /\ Committed(queues) = {}

(* ---------------------------------------------------------------------- *)
(* Properties of the loop (SpecLoop), continued.                           *)
(* ---------------------------------------------------------------------- *)

\* The IMAP connection is attempted at most max_retries times in a cycle,
\* and when the last attempt has failed the exception is in main() with no
\* message of the cycle fetched or processed, and then the processor and its
\* connection are gone.
ImapAttemptsBounded ==
    /\ lp.attempt \in 0..(max_retries - 1)
    /\ lp.pc = "search" => lp.err = "none" /\ lp.conn
    /\ lp.raised_in = "connect_imap" =>
         /\ lp.attempt = max_retries - 1
         /\ lp.batch = {} /\ lp.attempted = {}
         /\ wk[Proc].pc = "idle"
    /\ lp.raised_in = "connect_imap" /\ lp.pc \in {"pause", "top"} =>
         ~ lp.processor /\ ~ lp.conn

\* C22 as stated: ... and after three failed attempts the wait is the
\* transient one (60 seconds, 70 to the next cycle).
C22_ImapFailureGetsTransientBackoff ==
    /\ ImapAttemptsBounded
    /\ lp.raised_in = "connect_imap" /\ lp.pc = "pause" =>
         lp.waited = ErrorBackoff
    /\ lp.raised_in = "connect_imap" /\ lp.pc = "top" =>
         lp.waited = ErrorBackoff + CyclePause

\* C22: ... and after three failed attempts the wait is the transient one,
\* unless the exception of the third attempt is a ValueError, for which it
\* is the configuration one (300 seconds, 310 to the next cycle).
C22_ImapFailureBackoffByClass ==
    /\ ImapAttemptsBounded
    /\ lp.raised_in = "connect_imap" /\ lp.pc = "pause" =>
         lp.waited = (IF lp.err = "ValueError" THEN ConfigBackoff
                      ELSE ErrorBackoff)
    /\ lp.raised_in = "connect_imap" /\ lp.pc = "top" =>
         lp.waited = (IF lp.err = "ValueError" THEN ConfigBackoff
                      ELSE ErrorBackoff) + CyclePause

\* C22 witness: three attempts have failed, the last with an exception that
\* is no ValueError, and the process has slept the transient backoff.
C22_Witness ==
    /\ lp.pc = "pause"
    /\ lp.raised_in = "connect_imap"
    /\ lp.err = "Exception"
    /\ lp.attempt = max_retries - 1
    /\ lp.waited = ErrorBackoff

(* ---------------------------------------------------------------------- *)
(* Properties of the transaction of a call (SpecProcess).                  *)
(* ---------------------------------------------------------------------- *)

\* C23: a committed ticket has a committed inbound item of the call that
\* created it ('email', source 'customer', on that ticket); a committed
\* inbound item has its ticket committed; and a call that raised has left
\* neither a ticket nor an item, whatever raised.
C23_TicketAndItemCommitTogether ==
    /\ \A t \in Committed(tickets) :
         \E i \in Committed(items) :
           /\ i.ticket_id = t.id /\ i.call = t.call
           /\ i.type = "email" /\ i.source = "customer"
    /\ \A i \in Committed(items) :
         \E t \in Committed(tickets) : t.id = i.ticket_id
    /\ \A h \in hist :
         h.result = "error" =>
           /\ ~ \E t \in tickets : t.call = h.call
           /\ ~ \E i \in items : i.call = h.call

\* C23 witness: a call raised after its ticket was inserted (its number is
\* taken) and after its inbound item was stored (the send failed), and
\* another call has committed its ticket and item.
C23_Witness ==
    /\ \E h \in hist : h.result = "error" /\ h.n > 0 /\ h.send = "failed"
    /\ \E h \in hist : h.result = "error" /\ h.n > 0 /\ MsgOf(h).bad
    /\ Committed(tickets) # {}

\* C24: a worker that is between two calls has no transaction open and holds
\* no row lock, however its last call ended.
C24_ExitLeavesNoTransactionOrLock ==
    \A w \in Workers :
      wk[w].pc = "idle" => ~ intx[w] /\ locks[w] = {}

\* C25: a call returns 'already processed' only for a message that has a
\* message-id of which a committed 'email' item exists; and of two different
\* messages without Message-ID whose calls did not raise, each has an item
\* of its own.
C25_SkippedOnlyIfSameMessageStored ==
    /\ \A h \in hist :
         h.result = "skipped" =>
           /\ h.message_id # <<>>
           /\ EmailItems(h.message_id) # {}
    /\ \A h1, h2 \in hist :
         /\ MsgOf(h1) # MsgOf(h2)
         /\ MsgOf(h1).mid = <<>> /\ MsgOf(h2).mid = <<>>
         /\ h1.result # "error" /\ h2.result # "error"
         => \E i1, i2 \in Committed(items) :
              i1.call = h1.call /\ i2.call = h2.call /\ i1 # i2
====
